---- MODULE Spec2Model ----
(***************************************************************************)
(* Model of plugins/modules/proxysql_galera_hostgroups.py: one run of the  *)
(* module (main) against the ProxySQL admin interface.  The admin          *)
(* interface holds the mysql_galera_hostgroups table in three layers:      *)
(* memory (the table the SQL statements act on), disk and runtime.         *)
(***************************************************************************)
EXTENDS Integers, Sequences, FiniteSets, TLC

VARIABLES memory, disk, runtime, params, check_mode, result, before,
          executed, runs, repeat, clean

\* memory, disk, runtime : the table in the three layers of the admin interface
\* params, check_mode    : module.params and module.check_mode of the last run
\* result                : the result dictionary of the last run (failed: fail_json)
\* executed              : the statements the last run sent, in order
\* before                : memory as the last run found it
\* runs                  : number of runs so far
\* repeat                : the last run repeated the parameters of the run before
\*                         it, which was a successful run outside check mode
\* clean                 : every run so far succeeded outside check mode
vars == <<memory, disk, runtime, params, check_mode, result, before,
          executed, runs, repeat, clean>>

(* ---------------- bounds and input domains ---------------- *)

MaxRuns == 2

\* writer_hostgroup values offered to the module; -1 is rejected by perform_checks
WriterHostgroups == {-1, 0, 1}

\* reader_hostgroup values offered to the module
ReaderHostgroups == {-1, 1, 2}

\* primary keys of the rows the table can hold
TableKeys == {w \in WriterHostgroups : w >= 0}

Comments == {"", "a"}

\* the six remaining columns, as two settings that differ in every column
OtherColumns ==
    { [backup_writer_hostgroup |-> 3, offline_hostgroup |-> 4, active |-> 1,
       max_writers |-> 1, writer_is_also_reader |-> 0,
       max_transactions_behind |-> 0],
      [backup_writer_hostgroup |-> 5, offline_hostgroup |-> 6, active |-> 0,
       max_writers |-> 2, writer_is_also_reader |-> 1,
       max_transactions_behind |-> 10] }

IntColumns == {"writer_hostgroup", "backup_writer_hostgroup", "reader_hostgroup",
               "offline_hostgroup", "active", "max_writers",
               "writer_is_also_reader", "max_transactions_behind"}

Columns == IntColumns \cup {"comment"}

\* columns the module never rewrites on an existing row
FixedColumns == IntColumns \ {"reader_hostgroup"}

\* result['galera_group'] was never assigned
Unset == [unset |-> TRUE]

\* fetchone() on an empty result set
None == [none |-> TRUE]

(* ---------------- text <-> integer, as the admin interface returns text ---------------- *)

Digit == <<"0", "1", "2", "3", "4", "5", "6", "7", "8", "9">>

\* the decimal text of a non-negative column value, one character per element
RECURSIVE SqlText(_)
SqlText(n) ==
    IF n < 10 THEN <<Digit[n + 1]>>
    ELSE SqlText(n \div 10) \o <<Digit[(n % 10) + 1]>>

DigitValue(c) == (CHOOSE i \in 1..10 : Digit[i] = c) - 1

\* python int() on decimal text
RECURSIVE int(_)
int(s) ==
    IF Len(s) = 0 THEN 0
    ELSE int(SubSeq(s, 1, Len(s) - 1)) * 10 + DigitValue(s[Len(s)])

(* ---------------- module parameters ---------------- *)

\* module.params of a run: state st, hostgroups w and r, the remaining columns o,
\* comment c and the two propagation switches
ModuleParams(st, w, r, o, c, sd, lr) ==
    [state |-> st, save_to_disk |-> sd, load_to_runtime |-> lr,
     writer_hostgroup |-> w, reader_hostgroup |-> r,
     backup_writer_hostgroup |-> o.backup_writer_hostgroup,
     offline_hostgroup |-> o.offline_hostgroup, active |-> o.active,
     max_writers |-> o.max_writers,
     writer_is_also_reader |-> o.writer_is_also_reader,
     max_transactions_behind |-> o.max_transactions_behind,
     comment |-> c]

DefaultColumns == CHOOSE o \in OtherColumns : o.active = 1

\* state=present: every column is offered in every combination
\* (reader_hostgroup = writer_hostgroup included)
PresentParams ==
    { ModuleParams("present", w, r, o, c, sd, lr) :
        w \in TableKeys, r \in {x \in ReaderHostgroups : x >= 0},
        o \in OtherColumns, c \in Comments, sd \in BOOLEAN, lr \in BOOLEAN }

\* state=absent: only writer_hostgroup is read once perform_checks has passed
AbsentParams ==
    { ModuleParams("absent", w, 2, DefaultColumns, "", sd, lr) :
        w \in TableKeys, sd \in BOOLEAN, lr \in BOOLEAN }

\* parameters with a negative writer_hostgroup or reader_hostgroup
NegativeParams ==
    { ModuleParams("present", wr[1], wr[2], DefaultColumns, "", TRUE, TRUE) :
        wr \in { x \in WriterHostgroups \X ReaderHostgroups : x[1] < 0 \/ x[2] < 0 } }

Params == PresentParams \cup AbsentParams \cup NegativeParams

\* perform_checks: TRUE when no fail_json is raised
perform_checks(p) ==
    /\ p.writer_hostgroup >= 0
    /\ ~(p.reader_hostgroup < 0)
    /\ ~(p.reader_hostgroup = p.writer_hostgroup)

(* ---------------- the table ---------------- *)

\* a stored row: integer columns and a text comment
Rows ==
    { [writer_hostgroup |-> w, reader_hostgroup |-> r,
       backup_writer_hostgroup |-> o.backup_writer_hostgroup,
       offline_hostgroup |-> o.offline_hostgroup, active |-> o.active,
       max_writers |-> o.max_writers,
       writer_is_also_reader |-> o.writer_is_also_reader,
       max_transactions_behind |-> o.max_transactions_behind,
       comment |-> c] :
      w \in TableKeys, r \in {x \in ReaderHostgroups : x >= 0},
      o \in OtherColumns, c \in Comments }

\* table contents: sets of rows in which writer_hostgroup is the primary key
Tables ==
    { t \in SUBSET {r \in Rows : r.reader_hostgroup # r.writer_hostgroup} :
        \A r1, r2 \in t : r1.writer_hostgroup = r2.writer_hostgroup => r1 = r2 }

\* the rows the table may hold before the first run
InitialRows ==
    { r \in Rows : \/ /\ r.writer_hostgroup = 0 /\ r.reader_hostgroup = 1
                       /\ r.active = 1 /\ r.comment = ""
                    \/ /\ r.writer_hostgroup = 1 /\ r.reader_hostgroup = 2
                       /\ r.active = 0 /\ r.comment = "a" }

InitialTables == {t \in Tables : t \subseteq InitialRows}

\* the rows of table t selected by WHERE writer_hostgroup = w
Where(t, w) == {r \in t : r.writer_hostgroup = w}

\* the connection: the three configuration layers and the statements sent so far
Cursor(m, d, r) == [memory |-> m, disk |-> d, runtime |-> r, executed |-> <<>>]

\* a row as a DictCursor returns it: every integer column as decimal text
Fetched(row) ==
    [c \in Columns |-> IF c = "comment" THEN row[c] ELSE SqlText(row[c])]

\* SELECT count(*) ... WHERE writer_hostgroup = %s  > 0
check_galera_group_config(p, cursor) ==
    Cardinality(Where(cursor.memory, p.writer_hostgroup)) > 0

\* SELECT * ... WHERE writer_hostgroup = %s ; fetchone()
get_galera_group_config(p, cursor) ==
    LET found == Where(cursor.memory, p.writer_hostgroup)
    IN  IF found = {} THEN None ELSE Fetched(CHOOSE r \in found : TRUE)

\* self.comment or ''
CommentOrEmpty(c) == IF c = "" THEN "" ELSE c

\* variant: the INSERT leaves the comment column at its default
create_galera_group_config_NoComment(p, cursor) ==
    [cursor EXCEPT
       !.memory = @ \cup
           {[c \in Columns |-> IF c = "comment" THEN "" ELSE p[c]]},
       !.executed = Append(@, "INSERT")]

\* INSERT INTO mysql_galera_hostgroups (...) VALUES (...)
create_galera_group_config(p, cursor) ==
    [cursor EXCEPT
       !.memory = @ \cup
           {[c \in Columns |-> IF c = "comment" THEN CommentOrEmpty(p.comment)
                               ELSE p[c]]},
       !.executed = Append(@, "INSERT")]

\* variant: the DELETE is keyed by the reader hostgroup parameter
delete_galera_group_config_ByReader(p, cursor) ==
    [cursor EXCEPT
       !.memory = @ \ Where(@, p.reader_hostgroup),
       !.executed = Append(@, "DELETE")]

\* DELETE FROM mysql_galera_hostgroups WHERE writer_hostgroup = %s
delete_galera_group_config(p, cursor) ==
    [cursor EXCEPT
       !.memory = @ \ Where(@, p.writer_hostgroup),
       !.executed = Append(@, "DELETE")]

\* variant: the UPDATE has no WHERE clause
update_reader_hostgroup_AllRows(p, cursor) ==
    [cursor EXCEPT
       !.memory = { [r EXCEPT !.reader_hostgroup = p.reader_hostgroup] : r \in @ },
       !.executed = Append(@, "UPDATE")]

\* UPDATE ... SET reader_hostgroup = %s WHERE writer_hostgroup = %s
update_reader_hostgroup(p, cursor) ==
    [cursor EXCEPT
       !.memory = { IF r.writer_hostgroup = p.writer_hostgroup
                    THEN [r EXCEPT !.reader_hostgroup = p.reader_hostgroup]
                    ELSE r : r \in @ },
       !.executed = Append(@, "UPDATE")]

\* UPDATE ... SET comment = %s WHERE writer_hostgroup = %s
update_comment(p, cursor) ==
    [cursor EXCEPT
       !.memory = { IF r.writer_hostgroup = p.writer_hostgroup
                    THEN [r EXCEPT !.comment = p.comment]
                    ELSE r : r \in @ },
       !.executed = Append(@, "UPDATE")]

\* SAVE MYSQL SERVERS TO DISK
save_config_to_disk(cursor) ==
    [cursor EXCEPT !.disk = cursor.memory, !.executed = Append(@, "SAVE")]

\* LOAD MYSQL SERVERS TO RUNTIME
load_config_to_runtime(cursor) ==
    [cursor EXCEPT !.runtime = cursor.memory, !.executed = Append(@, "LOAD")]

\* variant: runtime is loaded before the configuration is saved
manage_config_LoadFirst(p, chk, cursor, state) ==
    IF state /\ ~chk
    THEN LET c1 == IF p.load_to_runtime THEN load_config_to_runtime(cursor) ELSE cursor
         IN  IF p.save_to_disk THEN save_config_to_disk(c1) ELSE c1
    ELSE cursor

\* variant: the two switches are read the wrong way round
manage_config_SwappedSwitches(p, chk, cursor, state) ==
    IF state /\ ~chk
    THEN LET c1 == IF p.load_to_runtime THEN save_config_to_disk(cursor) ELSE cursor
         IN  IF p.save_to_disk THEN load_config_to_runtime(c1) ELSE c1
    ELSE cursor

\* manage_config: propagate memory to disk and runtime after a change
manage_config(p, chk, cursor, state) ==
    IF state /\ ~chk
    THEN LET c1 == IF p.save_to_disk THEN save_config_to_disk(cursor) ELSE cursor
         IN  IF p.load_to_runtime THEN load_config_to_runtime(c1) ELSE c1
    ELSE cursor

(* ---------------- the three operations ---------------- *)
\* each yields the result dictionary and the connection after the operation

create_galera_group(p, chk, res, cursor) ==
    IF ~chk
    THEN LET c1 == create_galera_group_config(p, cursor)
             r1 == [res EXCEPT !.changed = TRUE,
                               !.galera_group = get_galera_group_config(p, c1)]
         IN  [result |-> r1, cursor |-> manage_config(p, chk, c1, r1.changed)]
    ELSE [result |-> [res EXCEPT !.changed = TRUE], cursor |-> cursor]

\* variant: the comment is rewritten without looking at check_mode
update_galera_group_Unguarded(p, chk, res, cursor) ==
    LET current == get_galera_group_config(p, cursor)
        diffC == current.comment # p.comment
        r1 == IF diffC THEN [res EXCEPT !.changed = TRUE] ELSE res
        c1 == IF diffC THEN update_comment(p, cursor) ELSE cursor
        diffR == int(current.reader_hostgroup) # p.reader_hostgroup
        r2 == IF diffR THEN [r1 EXCEPT !.changed = TRUE] ELSE r1
        c2 == IF diffR /\ ~chk THEN update_reader_hostgroup(p, c1) ELSE c1
        r3 == [r2 EXCEPT !.galera_group = get_galera_group_config(p, c2)]
    IN  [result |-> r3, cursor |-> manage_config(p, chk, c2, r3.changed)]

update_galera_group(p, chk, res, cursor) ==
    LET current == get_galera_group_config(p, cursor)
        diffC == current.comment # p.comment
        r1 == IF diffC THEN [res EXCEPT !.changed = TRUE] ELSE res
        c1 == IF diffC /\ ~chk THEN update_comment(p, cursor) ELSE cursor
        diffR == int(current.reader_hostgroup) # p.reader_hostgroup
        r2 == IF diffR THEN [r1 EXCEPT !.changed = TRUE] ELSE r1
        c2 == IF diffR /\ ~chk THEN update_reader_hostgroup(p, c1) ELSE c1
        r3 == [r2 EXCEPT !.galera_group = get_galera_group_config(p, c2)]
    IN  [result |-> r3, cursor |-> manage_config(p, chk, c2, r3.changed)]

\* variant: the record is fetched after the DELETE
delete_galera_group_FetchAfter(p, chk, res, cursor) ==
    IF ~chk
    THEN LET c1 == delete_galera_group_config(p, cursor)
             r1 == [res EXCEPT !.galera_group = get_galera_group_config(p, c1)]
             r2 == [r1 EXCEPT !.changed = TRUE]
         IN  [result |-> r2, cursor |-> manage_config(p, chk, c1, r2.changed)]
    ELSE [result |-> [res EXCEPT !.changed = TRUE], cursor |-> cursor]

delete_galera_group(p, chk, res, cursor) ==
    IF ~chk
    THEN LET r1 == [res EXCEPT !.galera_group = get_galera_group_config(p, cursor)]
             c1 == delete_galera_group_config(p, cursor)
             r2 == [r1 EXCEPT !.changed = TRUE]
         IN  [result |-> r2, cursor |-> manage_config(p, chk, c1, r2.changed)]
    ELSE [result |-> [res EXCEPT !.changed = TRUE], cursor |-> cursor]

\* main(): the whole run, from perform_checks to exit_json / fail_json
main(p, chk, cursor) ==
    LET res == [failed |-> FALSE, state |-> p.state, changed |-> FALSE,
                galera_group |-> Unset]
    IN  IF ~perform_checks(p)
        THEN [result |-> [failed |-> TRUE, state |-> p.state, changed |-> FALSE,
                          galera_group |-> Unset],
              cursor |-> cursor]
        ELSE IF p.state = "present"
        THEN IF ~check_galera_group_config(p, cursor)
             THEN create_galera_group(p, chk, res, cursor)
             ELSE LET u == update_galera_group(p, chk, res, cursor)
                  IN  [result |-> [u.result EXCEPT !.galera_group =
                                      get_galera_group_config(p, u.cursor)],
                       cursor |-> u.cursor]
        ELSE IF check_galera_group_config(p, cursor)
             THEN delete_galera_group(p, chk, res, cursor)
             ELSE [result |-> [res EXCEPT !.changed = FALSE], cursor |-> cursor]

(* ---------------- the state machine ---------------- *)

NoParams == [state |-> "none"]

Init ==
    /\ memory \in InitialTables
    /\ disk = memory
    /\ runtime = memory
    /\ params = NoParams
    /\ check_mode = FALSE
    /\ result = [failed |-> FALSE, state |-> "none", changed |-> FALSE,
                 galera_group |-> Unset]
    /\ before = memory
    /\ executed = <<>>
    /\ runs = 0
    /\ repeat = FALSE
    /\ clean = TRUE

\* one run of the module with parameters p, in check mode or not
Run(p, chk) ==
    /\ runs < MaxRuns
    /\ \E out \in {main(p, chk, Cursor(memory, disk, runtime))} :
           /\ memory' = out.cursor.memory
           /\ disk' = out.cursor.disk
           /\ runtime' = out.cursor.runtime
           /\ executed' = out.cursor.executed
           /\ result' = out.result
           /\ clean' = (clean /\ ~out.result.failed /\ ~chk)
    /\ before' = memory
    /\ params' = p
    /\ check_mode' = chk
    /\ runs' = runs + 1
    /\ repeat' = (runs > 0 /\ p = params /\ ~result.failed /\ ~check_mode)

Next == \E p \in Params, chk \in BOOLEAN : Run(p, chk)

Spec == Init /\ [][Next]_vars

(* ---------------- properties of a run ---------------- *)

Ran == runs > 0

\* the last run ended in exit_json
Succeeded == Ran /\ ~result.failed

\* the rows of table t with the requested writer_hostgroup
Requested(t) == Where(t, params.writer_hostgroup)

\* the row the module parameters describe
ParamsRow == [c \in Columns |-> params[c]]

\* the requested row of table t as the admin interface returns it
RowText(t) == Fetched(CHOOSE r \in Requested(t) : TRUE)

Writes == {"INSERT", "UPDATE", "DELETE"}

\* the positions of statement op among the statements of the last run
Positions(op) == {i \in 1..Len(executed) : executed[i] = op}

WritePositions == {i \in 1..Len(executed) : executed[i] \in Writes}

\* C1: a run that repeats the parameters of the successful non-check-mode run
\* before it reports changed=False, sends no INSERT/UPDATE/DELETE, and neither
\* saves to disk nor loads to runtime.
C1_Idempotent ==
    (repeat /\ Succeeded) =>
        /\ result.changed = FALSE
        /\ executed = <<>>
        /\ memory = before

C1_Witness ==
    /\ repeat /\ Succeeded /\ ~check_mode
    /\ params.state = "present"
    /\ params.comment = "a"
    /\ Requested(memory) # {}

\* C2: after a successful non-check-mode run with state=present the table holds
\* exactly one row with the requested writer_hostgroup, and every column of it
\* equals the module parameter of that name.
C2_Converges ==
    (Succeeded /\ ~check_mode /\ params.state = "present") =>
        Requested(memory) = {ParamsRow}

\* C3: after a successful non-check-mode run with state=absent no row with the
\* requested writer_hostgroup remains; changed is reported exactly when such a
\* row existed before, and without one no DELETE is sent.
C3_Absent ==
    (Succeeded /\ ~check_mode /\ params.state = "absent") =>
        /\ Requested(memory) = {}
        /\ result.changed <=> (Requested(before) # {})
        /\ (Requested(before) = {}) => (Positions("DELETE") = {})

C3_Witness ==
    /\ Succeeded /\ ~check_mode /\ params.state = "absent"
    /\ Requested(before) # {}
    /\ result.changed
    /\ Positions("DELETE") # {}

\* C4: a run in check mode leaves the table as it was and invokes neither the
\* save to disk nor the load to runtime, whatever the two switches say.
C4_CheckMode ==
    (Ran /\ check_mode) =>
        /\ memory = before
        /\ executed = <<>>

C4_Witness ==
    /\ Ran /\ check_mode /\ ~result.failed
    /\ params.state = "present"
    /\ Requested(before) # {}
    /\ result.changed
    /\ params.save_to_disk /\ params.load_to_runtime

\* C5: in a successful non-check-mode run, create and update return the row as
\* it stands in the table after the run, and delete returns the row as it stood
\* before the run.
C5_Returned ==
    (Succeeded /\ ~check_mode) =>
        /\ params.state = "present" =>
               /\ Requested(memory) # {}
               /\ result.galera_group = RowText(memory)
        /\ (params.state = "absent" /\ Requested(before) # {}) =>
               result.galera_group = RowText(before)

C5_Witness ==
    /\ Succeeded /\ ~check_mode /\ params.state = "absent"
    /\ Requested(before) # {}
    /\ result.galera_group # Unset
    /\ int(result.galera_group.max_transactions_behind) = 10

\* C6: the save to disk is invoked exactly when the run reported changed=True
\* outside check mode with save_to_disk set, the load to runtime exactly when
\* it did so with load_to_runtime set; each at most once, both after every
\* INSERT/UPDATE/DELETE of the run, the save before the load.
C6_Propagation ==
    Ran =>
        /\ (Positions("SAVE") # {}) <=>
               (result.changed /\ ~check_mode /\ params.save_to_disk)
        /\ (Positions("LOAD") # {}) <=>
               (result.changed /\ ~check_mode /\ params.load_to_runtime)
        /\ Cardinality(Positions("SAVE")) <= 1
        /\ Cardinality(Positions("LOAD")) <= 1
        /\ \A i \in WritePositions :
               \A j \in Positions("SAVE") \cup Positions("LOAD") : i < j
        /\ \A i \in Positions("SAVE") : \A j \in Positions("LOAD") : i < j

C6_Witness ==
    /\ Ran
    /\ Cardinality(Positions("UPDATE")) = 2
    /\ Positions("SAVE") # {}
    /\ Positions("LOAD") # {}

\* C7: a run leaves every row with another writer_hostgroup as it was; with
\* state=present on an existing row, that row stays and only its comment and
\* reader_hostgroup may differ afterwards.
C7_Frame ==
    Ran =>
        /\ memory \ Requested(memory) = before \ Requested(before)
        /\ (params.state = "present" /\ Requested(before) # {}) =>
               /\ Requested(memory) # {}
               /\ \A old \in Requested(before) : \A new \in Requested(memory) :
                      \A c \in FixedColumns : new[c] = old[c]

C7_Witness ==
    /\ Succeeded /\ ~check_mode /\ params.state = "present"
    /\ Requested(before) # {}
    /\ before \ Requested(before) # {}
    /\ Cardinality(Positions("UPDATE")) = 2
    /\ \E row \in Requested(memory) :
           row.backup_writer_hostgroup # params.backup_writer_hostgroup

\* C8 as stated: after successful non-check-mode runs only, disk agrees with
\* memory on the requested writer_hostgroup whenever the last run had
\* save_to_disk set, and runtime does whenever it had load_to_runtime set.
C8_Persisted ==
    (Ran /\ clean) =>
        /\ params.save_to_disk => Requested(disk) = Requested(memory)
        /\ params.load_to_runtime => Requested(runtime) = Requested(memory)

\* C8 amended: after successful non-check-mode runs only, when the last run
\* reported changed=True, disk agrees with memory on the requested
\* writer_hostgroup if that run had save_to_disk set, and runtime does if it
\* had load_to_runtime set.
C8_PersistedOnChange ==
    (Ran /\ clean /\ result.changed) =>
        /\ params.save_to_disk => Requested(disk) = Requested(memory)
        /\ params.load_to_runtime => Requested(runtime) = Requested(memory)

C8_Witness ==
    /\ Ran /\ clean /\ result.changed
    /\ runs = MaxRuns
    /\ params.save_to_disk /\ ~params.load_to_runtime
    /\ Requested(disk) = Requested(memory)
    /\ Requested(runtime) # Requested(memory)

====
